---- MODULE Spec2Model ----
(***************************************************************************)
(* Gas-Checker: the API route that sums the gas cost of an address, and    *)
(* the page that calls it.                                                 *)
(*                                                                         *)
(* The route file exists in two copies that differ only in the pagination  *)
(* cursor convention ("before" and "after"); a call carries the name of    *)
(* its copy in the field `route`.                                          *)
(*                                                                         *)
(* Every request is a process with the local variables of GET,             *)
(* calculateTotalGasCost and fetchTransactionHistory.  A process moves at  *)
(* its await points: a step either issues an upstream call or consumes the *)
(* answer of the one it awaits.  The providers are the environment: their  *)
(* answers are drawn from bounded sets.                                    *)
(***************************************************************************)
EXTENDS Integers, Sequences, FiniteSets, TLC

VARIABLES
    st,              \* st[r]: the locals of request r (see IdleCall)
    lastValidPrice,  \* the "last valid historical price" slots
    inflight,        \* inflight[r]: upstream calls issued by r and not yet answered
    ui,              \* the state of the page (see IdleUI)
    wei              \* the wei total of a call on quantities of any size (see IdleWei)

vars == <<st, lastValidPrice, inflight, ui, wei>>

-----------------------------------------------------------------------------
(* Bounds of the model *)

\* Spec: most transactions of a history
MaxTxs == 3
\* SpecFetch and SpecConc: most transactions of a page
MaxPageLen == 2
\* SpecFetch: most transactions of a history, and most page requests of a fetch
FetchMaxTxs == 4
FetchMaxPages == 3
\* SpecConc: most transactions of all histories together, and the requests that
\* run concurrently
ConcMaxTxs == 4
NumReq == 2
\* SpecLive: the elements kept of the lists a fetch builds
LiveKeep == 2
\* SpecPage: most calls of handleSubmit
PageMaxSubmits == 2
\* SpecWei: most transactions of a history
WeiMaxTxs == 2

-----------------------------------------------------------------------------
(* JavaScript values *)

\* a JSON field of a transaction: absent, a number, or a string that is no integer
Absent == [kind |-> "absent", v |-> 0]
NumF(n) == [kind |-> "num", v |-> n]
BadF == [kind |-> "bad", v |-> 0]

\* JavaScript truthiness of a field: undefined and 0 are falsy, a non-empty string is truthy
Truthy(f) == f.kind = "bad" \/ (f.kind = "num" /\ f.v # 0)

\* a || b
OrElse(a, b) == IF Truthy(a) THEN a ELSE b

\* BigInt(x) throws on a value that is no integer
BigIntThrows(f) == f.kind # "num"
BigInt(f) == f.v

\* A decimal string is the sequence of its digits, the first one first.  A BigInt
\* is a natural number of any size: the sequence of its decimal digits, the units
\* first, without a zero at the upper end (0n is the empty sequence).
Reversed(s) == [i \in 1..Len(s) |-> s[Len(s) + 1 - i]]

RECURSIVE Canonical(_)
Canonical(x) ==
    IF x = <<>> THEN x
    ELSE IF x[Len(x)] = 0 THEN Canonical(SubSeq(x, 1, Len(x) - 1))
    ELSE x

\* BigInt(s) on a string of decimal digits
BigIntOfString(s) == Canonical(Reversed(s))

\* BigInt.prototype.toString of a BigInt of any size
BigIntDecimal(x) == IF x = <<>> THEN <<0>> ELSE Reversed(x)

DigitAt(x, i) == IF i \in 1..Len(x) THEN x[i] ELSE 0

RECURSIVE Carries(_, _)
\* the carries into the columns of an addition, cols[k] being the sum of column
\* k before carrying; acc holds the carries into the columns 1..Len(acc)
Carries(cols, acc) ==
    IF Len(acc) > Len(cols) THEN acc
    ELSE Carries(cols, Append(acc, (cols[Len(acc)] + acc[Len(acc)]) \div 10))

\* the number whose column sums are cols, the column of the units first
Carried(cols) ==
    LET carries == Carries(cols, <<0>>)
    IN  Canonical([k \in 1..Len(cols) |-> (cols[k] + carries[k]) % 10])

\* a + b on BigInts
BigIntPlus(a, b) ==
    Carried(<<>> \o [k \in 1..((IF Len(a) > Len(b) THEN Len(a) ELSE Len(b)) + 1) |->
                        DigitAt(a, k) + DigitAt(b, k)])

RECURSIVE Column(_, _, _, _)
\* column k of the long multiplication of a and b: the products a[i] * b[k + 1 - i]
\* from digit i of a on
Column(a, b, k, i) ==
    IF i > Len(a) THEN 0
    ELSE a[i] * DigitAt(b, k + 1 - i) + Column(a, b, k, i + 1)

\* (variant: the product is computed on Numbers, which keep the 16 upper decimal
\* digits of it)
NumberTimes(a, b) ==
    LET x == Carried(<<>> \o [k \in 1..(Len(a) + Len(b)) |-> Column(a, b, k, 1)])
    IN  Canonical([i \in 1..Len(x) |-> IF i > Len(x) - 16 THEN x[i] ELSE 0])

\* a * b on BigInts
BigIntTimes(a, b) == Carried(<<>> \o [k \in 1..(Len(a) + Len(b)) |-> Column(a, b, k, 1)])

\* new Date(Number(x)).toISOString() throws on a value that is no number
DateThrows(f) == f.kind # "num"

\* A double: a number or NaN; null is the third kind, for a nullable double.
\* Amounts of ether are held in units of 10^-18 ether (the text formatEther
\* prints, read back by parseFloat), exact below 2^53.
Num(n) == [kind |-> "num", v |-> n]
NaN == [kind |-> "nan", v |-> 0]
Null == [kind |-> "null", v |-> 0]

FMul(a, b) == IF a.kind = "nan" \/ b.kind = "nan" THEN NaN ELSE Num(a.v * b.v)
FAdd(a, b) == IF a.kind = "nan" \/ b.kind = "nan" THEN NaN ELSE Num(a.v + b.v)

\* parseFloat(formatEther(wei))
ParseFloatEther(amount) == Num(amount)

\* parseFloat(priceObj.value): NaN when the point has no numeric value
ParseFloatValue(point) == IF point.hasValue THEN Num(point.value) ELSE NaN

-----------------------------------------------------------------------------
(* Inputs: what the providers may answer *)

Tx(h, gu, g, egp, gp, ts) ==
    [hash |-> h, gasUsed |-> gu, gas |-> g, effectiveGasPrice |-> egp,
     gasPrice |-> gp, blockTimestamp |-> ts]

TxFull == Tx("a", NumF(2), NumF(3), NumF(5), NumF(7), NumF(1))
TxFallback == Tx("b", Absent, NumF(3), Absent, NumF(7), NumF(2))
TxNoGas == Tx("c", Absent, Absent, NumF(5), NumF(7), NumF(1))
TxNoGasPrice == Tx("d", NumF(2), NumF(3), Absent, Absent, NumF(1))
TxNoTimestamp == Tx("e", NumF(2), NumF(3), NumF(5), NumF(7), Absent)
TxBadGas == Tx("f", BadF, NumF(3), NumF(5), NumF(7), NumF(1))
TxZeroGasUsed == Tx("g", NumF(0), NumF(3), NumF(5), Absent, NumF(2))
TxBadTimestamp == Tx("h", NumF(2), NumF(3), NumF(5), NumF(7), BadF)
TxBadGasPrice == Tx("i", NumF(2), NumF(3), Absent, BadF, NumF(1))

TxPool == {TxFull, TxFallback, TxNoGas, TxNoGasPrice, TxNoTimestamp, TxBadGas,
           TxZeroGasUsed, TxBadTimestamp, TxBadGasPrice}

SeqsUpTo(S, n) == UNION {[1..k -> S] : k \in 0..n}

\* SpecWei: the gas and gas-price values of a transaction as decimal strings:
\* "0", "021000", "9007199254740993" (2^53 + 1) and "18446744073709551615"
\* (2^64 - 1)
Quantities ==
    {<<0>>,
     <<0, 2, 1, 0, 0, 0>>,
     <<9, 0, 0, 7, 1, 9, 9, 2, 5, 4, 7, 4, 0, 9, 9, 3>>,
     <<1, 8, 4, 4, 6, 7, 4, 4, 0, 7, 3, 7, 0, 9, 5, 5, 1, 6, 1, 5>>}

NoCursor == "none"
Cursors == {NoCursor, "c1", "c2"}

\* response.data of the history endpoint; hasTxs = FALSE: no "transactions" array
Pages(pool, n) ==
    {[hasTxs |-> TRUE, txs |-> t, before |-> b, after |-> a] :
        t \in SeqsUpTo(pool, n), b \in Cursors, a \in Cursors}
    \cup {[hasTxs |-> FALSE, txs |-> <<>>, before |-> b, after |-> a] :
        b \in Cursors, a \in Cursors}

\* response.data.data of the price endpoint: the price points of the window
PricePoints == {[hasValue |-> TRUE, value |-> 1], [hasValue |-> TRUE, value |-> 2],
                [hasValue |-> FALSE, value |-> 0]}
PriceAnswers == {<<>>} \cup {<<p>> : p \in PricePoints}
                \cup {<<[hasValue |-> TRUE, value |-> 2], [hasValue |-> TRUE, value |-> 1]>>}

\* searchParams.get('address'): null when the parameter is missing
NullAddress == "<null>"
Addresses == {NullAddress, "", "0xabc"}
Routes == {"before", "after"}

-----------------------------------------------------------------------------
(* The state of a request *)

NoResponse == [status |-> 0, body |-> [error |-> ""]]

IdleCall ==
    [pc |-> "idle",            \* idle, fetch, awaitHistory, loop, awaitPrice, done
     address |-> "",
     route |-> "before",
     \* fetchTransactionHistory
     transactions |-> <<>>,
     cursor |-> NoCursor,
     \* calculateTotalGasCost
     idx |-> 1,                \* position of the for loop in transactions
     totalGasCostWei |-> 0,
     totalGasCostETH |-> Num(0),
     totalGasCostUSD |-> Num(0),
     txCosts |-> <<>>,
     response |-> NoResponse,
     \* history of the run, read by the properties only
     sent |-> <<>>,            \* the cursor fields each history request carried
     pageLog |-> <<>>,         \* the history responses received
     answers |-> <<>>,         \* per transaction passed: what its price lookup gave
     recorded |-> <<>>,        \* per entry of txCosts: the index of its transaction
     keep |-> 0,               \* see Kept
     lookups |-> 0,            \* price lookups issued
     asked |-> <<>>,           \* per price lookup: the index of its transaction
     after |-> {}]             \* the requests that had finished when this one began

\* useState(null) of result and of chartData: null, or the object that was set
NoResult == [set |-> FALSE, data |-> <<>>]
NoChart == [set |-> FALSE, labels |-> <<>>, data |-> <<>>]

\* the state of Home after its first render
IdleUI ==
    [address |-> "",
     loading |-> FALSE,
     result |-> NoResult,
     chartData |-> NoChart,
     error |-> "",
     pc |-> "ready",           \* ready, awaitFetch: where handleSubmit stands
     asked |-> "",             \* the address of the render handleSubmit was called in
     req |-> 0,                \* the requests the page has sent; the last is st[req]
     \* history of the run, read by the properties only
     submits |-> 0]            \* calls of handleSubmit

\* The wei path of calculateTotalGasCost on the transactions that are recorded,
\* their quantities being decimal strings of any length
IdleWei ==
    [pc |-> "loop",            \* loop, done
     txs |-> <<>>,             \* per transaction: gasUsedValue and gasPriceValue
     idx |-> 1,
     totalGasCostWei |-> <<>>, \* BigInt(0)
     out |-> <<>>,             \* totalGasCostWei of the result, once returned
     \* history of the run, read by the properties only
     added |-> <<>>]           \* per transaction: the txCostWei that was added

Init ==
    /\ st = [r \in {1} |-> IdleCall]
    /\ lastValidPrice = [r \in {1} |-> Null]
    /\ inflight = [r \in {1} |-> 0]
    /\ ui = IdleUI
    /\ wei = IdleWei

InitConc ==
    /\ st = [r \in 1..NumReq |-> IdleCall]
    /\ lastValidPrice = [r \in 1..NumReq |-> Null]
    /\ inflight = [r \in 1..NumReq |-> 0]
    /\ ui = IdleUI
    /\ wei = IdleWei

\* SpecWei: a history of up to WeiMaxTxs transactions with any of the quantities
InitWei ==
    /\ st = [r \in {1} |-> IdleCall]
    /\ lastValidPrice = [r \in {1} |-> Null]
    /\ inflight = [r \in {1} |-> 0]
    /\ ui = IdleUI
    /\ wei \in {[IdleWei EXCEPT !.txs = t] :
                   t \in SeqsUpTo([gasUsedValue : Quantities, gasPriceValue : Quantities],
                                  WeiMaxTxs)}

\* SpecPage: the page, and a request for every call of handleSubmit
InitPage ==
    /\ st = [r \in 1..PageMaxSubmits |-> IdleCall]
    /\ lastValidPrice = [r \in 1..PageMaxSubmits |-> Null]
    /\ inflight = [r \in 1..PageMaxSubmits |-> 0]
    /\ ui = IdleUI
    /\ wei = IdleWei

\* SpecLive: one request whose fetch may go on without end
InitLive ==
    /\ st = [r \in {1} |-> [IdleCall EXCEPT !.keep = LiveKeep]]
    /\ lastValidPrice = [r \in {1} |-> Null]
    /\ inflight = [r \in {1} |-> 0]
    /\ ui = IdleUI
    /\ wei = IdleWei

Req == DOMAIN st

\* the last n elements of a sequence
LastOf(seq, n) == IF Len(seq) <= n THEN seq ELSE SubSeq(seq, Len(seq) - n + 1, Len(seq))

\* The lists a fetch builds (transactions, and sent and pageLog with it) grow with
\* every page, and the while loop reads none of them to decide whether it goes
\* on.  A call with keep = 0 holds them whole; a call with keep > 0 holds the
\* last `keep` elements of each, which makes a fetch without end a cycle of
\* finitely many states.
Kept(c) ==
    IF c.keep = 0 THEN c
    ELSE [c EXCEPT !.transactions = LastOf(@, c.keep), !.sent = LastOf(@, c.keep),
                   !.pageLog = LastOf(@, c.keep)]

Set(r, new) == st' = [st EXCEPT ![r] = Kept(new)]

-----------------------------------------------------------------------------
(* GET *)

MissingAddress == [status |-> 400, body |-> [error |-> "Missing address parameter"]]

\* (variant: only a missing parameter is refused, an empty one is not)
AddressIsNull(address) == address = NullAddress

\* !address
AddressMissing(address) == address = NullAddress \/ address = ""

Finished == {q \in Req : st[q].pc = "done"}

\* GET up to its first await: the 400 answer, or the call of calculateTotalGasCost,
\* which calls fetchTransactionHistory, which sets its locals and enters its loop
GET(r, address, route) ==
    /\ st[r].pc = "idle"
    /\ IF AddressMissing(address)
       THEN Set(r, [st[r] EXCEPT !.pc = "done", !.address = address, !.route = route,
                                 !.response = MissingAddress, !.after = Finished])
       ELSE Set(r, [st[r] EXCEPT !.pc = "fetch", !.address = address, !.route = route,
                                 !.transactions = <<>>, !.cursor = NoCursor,
                                 !.after = Finished])
    /\ UNCHANGED <<lastValidPrice, inflight, ui, wei>>

-----------------------------------------------------------------------------
(* fetchTransactionHistory *)

\* the cursor field of a response that this copy of the route reads
CursorOf(route, page) == IF route = "before" THEN page.before ELSE page.after

\* txs && Array.isArray(txs) && txs.length > 0
HasTransactions(page) == page.hasTxs /\ Len(page.txs) > 0

\* (variant: the loop goes on whenever the response names a next page, also when it
\* holds no transaction)
HasMoreByCursor(route, page) == CursorOf(route, page) # NoCursor

\* hasMore after a response: it stays true only in the branch that stores a cursor
HasMore(route, page) == HasTransactions(page) /\ CursorOf(route, page) # NoCursor

\* (variant: the cursor read under one name is sent back under the other)
CrossedRequest(route, cursor) ==
    [before |-> IF route = "after" THEN cursor ELSE NoCursor,
     after |-> IF route = "before" THEN cursor ELSE NoCursor]

\* the cursor fields of the request payload `data`: the stored cursor, if any,
\* under the name this copy of the route reads it from
HistoryRequest(route, cursor) ==
    [before |-> IF route = "before" THEN cursor ELSE NoCursor,
     after |-> IF route = "after" THEN cursor ELSE NoCursor]

\* the top of the while loop up to the await: the request carries the stored
\* cursor, if any
PostHistory(r) ==
    /\ st[r].pc = "fetch"
    /\ Set(r, [st[r] EXCEPT !.pc = "awaitHistory",
                            !.sent = Append(@, HistoryRequest(st[r].route, st[r].cursor))])
    /\ inflight' = [inflight EXCEPT ![r] = @ + 1]
    /\ UNCHANGED <<lastValidPrice, ui, wei>>

\* (variant: the last valid price is a variable of the module, one for all calls)
SharedSlot(r) == 1

\* the slot the call keeps its last valid price in: a local of the call
Slot(r) == r

\* (variant: the last valid price is not set to null when a call begins, the call
\* finds the price an earlier call left)
LeftByEarlierCall(lvp, r) ==
    IF Finished \ {r} = {} THEN [lvp EXCEPT ![r] = Null]
    ELSE [lvp EXCEPT ![r] = lvp[CHOOSE q \in Finished \ {r} : TRUE]]

\* let lastValidPrice = null
NewLastValidPrice(lvp, r) == [lvp EXCEPT ![Slot(r)] = Null]

\* the locals of calculateTotalGasCost once fetchTransactionHistory has returned
\* `transactions`, at the head of the for loop
StartLoop(c, transactions) ==
    [c EXCEPT !.pc = "loop", !.transactions = transactions, !.idx = 1,
              !.totalGasCostWei = 0, !.totalGasCostETH = Num(0),
              !.totalGasCostUSD = Num(0), !.txCosts = <<>>]

\* the locals of the call after a history response
AfterPage(c, page) ==
    LET transactions == IF HasTransactions(page) THEN c.transactions \o page.txs
                        ELSE c.transactions
    IN  IF HasMore(c.route, page)
        THEN [c EXCEPT !.pc = "fetch", !.transactions = transactions,
                       !.cursor = CursorOf(c.route, page),
                       !.pageLog = Append(@, page)]
        ELSE StartLoop([c EXCEPT !.pageLog = Append(@, page)], transactions)

\* the history request is answered
HistoryResponds(r, page) ==
    /\ st[r].pc = "awaitHistory"
    /\ Set(r, AfterPage(st[r], page))
    /\ inflight' = [inflight EXCEPT ![r] = @ - 1]
    /\ lastValidPrice' = IF HasMore(st[r].route, page) THEN lastValidPrice
                         ELSE NewLastValidPrice(lastValidPrice, r)
    /\ UNCHANGED <<ui, wei>>

ServerError(message) == [status |-> 500, body |-> [error |-> message]]

\* (variant: the catch ends the loop and the pages fetched so far are returned)
ReturnFetched(c) == StartLoop(c, c.transactions)

\* the locals of the call after a failed history request: the error is thrown again
\* by fetchTransactionHistory, passes calculateTotalGasCost and is caught by GET
AfterHistoryError(c) ==
    [c EXCEPT !.pc = "done", !.response = ServerError("history request failed")]

\* the history request fails
HistoryFails(r) ==
    /\ st[r].pc = "awaitHistory"
    /\ Set(r, AfterHistoryError(st[r]))
    /\ inflight' = [inflight EXCEPT ![r] = @ - 1]
    /\ UNCHANGED <<lastValidPrice, ui, wei>>

-----------------------------------------------------------------------------
(* calculateTotalGasCost: the for loop *)

\* tx.gasUsed || tx.gas
GasUsedValue(tx) == OrElse(tx.gasUsed, tx.gas)

\* tx.effectiveGasPrice || tx.gasPrice
GasPriceValue(tx) == OrElse(tx.effectiveGasPrice, tx.gasPrice)

\* gasUsedBig * gasPriceBig
TxCostWei(tx) == BigInt(GasUsedValue(tx)) * BigInt(GasPriceValue(tx))

\* (variant: a missing gas quantity or gas price counts as 0 and the transaction
\* is priced like any other)
UpToAwaitDefaultZero(tx) ==
    IF (Truthy(GasUsedValue(tx)) /\ BigIntThrows(GasUsedValue(tx)))
       \/ (Truthy(GasPriceValue(tx)) /\ BigIntThrows(GasPriceValue(tx))) THEN "caught"
    ELSE IF ~Truthy(tx.blockTimestamp) THEN "skip"
    ELSE IF DateThrows(tx.blockTimestamp) THEN "caught"
    ELSE "lookup"

\* (variant: the block timestamp is not required, the price of a transaction
\* without one is looked up all the same)
UpToAwaitAnyTimestamp(tx) ==
    IF ~Truthy(GasUsedValue(tx)) THEN "skip"
    ELSE IF ~Truthy(GasPriceValue(tx)) THEN "skip"
    ELSE IF BigIntThrows(GasUsedValue(tx)) \/ BigIntThrows(GasPriceValue(tx)) THEN "caught"
    ELSE "lookup"

\* how an iteration runs up to its await: "skip" is one of the three `continue`s
\* for a missing field, "caught" a conversion that throws into the catch of the
\* loop body (BigInt, or the date of the price window, computed by
\* fetchHistoricalETHPrice before its request), "lookup" the price request
UpToAwait(tx) ==
    IF ~Truthy(GasUsedValue(tx)) THEN "skip"
    ELSE IF ~Truthy(GasPriceValue(tx)) THEN "skip"
    ELSE IF BigIntThrows(GasUsedValue(tx)) \/ BigIntThrows(GasPriceValue(tx)) THEN "caught"
    ELSE IF ~Truthy(tx.blockTimestamp) THEN "skip"
    ELSE IF DateThrows(tx.blockTimestamp) THEN "caught"
    ELSE "lookup"

\* what the price lookup of a transaction gave
Unasked == [kind |-> "unasked", points |-> <<>>]
Failed == [kind |-> "error", points |-> <<>>]
Answered(points) == [kind |-> "points", points |-> points]

\* (variant: the cost in wei is added to the total before the price is known, so a
\* transaction skipped for its price still counts)
NextTxCounted(c, answer) ==
    [c EXCEPT !.pc = "loop", !.idx = @ + 1, !.answers = Append(@, answer),
              !.totalGasCostWei =
                  IF UpToAwait(c.transactions[c.idx]) = "lookup"
                  THEN @ + TxCostWei(c.transactions[c.idx]) ELSE @]

\* the iteration ends without an entry: the loop goes on with the next transaction
NextTx(c, answer) ==
    [c EXCEPT !.pc = "loop", !.idx = @ + 1, !.answers = Append(@, answer)]

\* (variant: the lookup is started and not awaited, the loop goes on with the next
\* transaction)
NotAwaited(c) ==
    [c EXCEPT !.pc = "loop", !.idx = @ + 1, !.lookups = @ + 1,
              !.asked = Append(@, c.idx), !.answers = Append(@, Unasked)]

\* where the call stands once it has issued the price lookup of a transaction
AwaitPrice(c) ==
    [c EXCEPT !.pc = "awaitPrice", !.lookups = @ + 1, !.asked = Append(@, c.idx)]

\* (variant: the conversions stand outside the try of the loop body, what they
\* throw ends the call and is caught by GET)
Thrown(c) == [c EXCEPT !.pc = "done", !.response = ServerError("conversion failed")]

\* the catch of the loop body, entered from a conversion that throws: the error
\* is logged and the loop goes on with the next transaction
Caught(c) == NextTx(c, Unasked)

\* an iteration of the for loop up to the await of fetchHistoricalETHPrice
BeginTx(r) ==
    /\ st[r].pc = "loop"
    /\ st[r].idx <= Len(st[r].transactions)
    /\ IF UpToAwait(st[r].transactions[st[r].idx]) = "lookup"
       THEN /\ Set(r, AwaitPrice(st[r]))
            /\ inflight' = [inflight EXCEPT ![r] = @ + 1]
       ELSE /\ Set(r, IF UpToAwait(st[r].transactions[st[r].idx]) = "caught"
                      THEN Caught(st[r])
                      ELSE NextTx(st[r], Unasked))
            /\ UNCHANGED inflight
    /\ UNCHANGED <<lastValidPrice, ui, wei>>

\* fetchHistoricalETHPrice on a response: the first point's value, or null
HistPrice(points) == IF Len(points) > 0 THEN ParseFloatValue(points[1]) ELSE Null

\* the price the iteration goes on with: the one found, else the last valid one
\* (null: none, the transaction is skipped)
PriceUsed(found, last) == IF found = Null THEN last ELSE found

\* (variant: only the first price found in a call is kept)
LastValidFirst(found, last) == IF last = Null THEN found ELSE last

\* (variant: lastValidPrice takes what the lookup returned, null included)
LastValidAlways(found, last) == found

\* lastValidPrice after the lookup
LastValidAfter(found, last) == IF found = Null THEN last ELSE found

\* (variant: the entry is put in front of txCosts, the newest entry first)
RecordedFirst(c, answer, price) ==
    LET tx == c.transactions[c.idx]
        txCostWei == TxCostWei(tx)
        txCostETH == ParseFloatEther(txCostWei)
        txCostUSD == FMul(txCostETH, price)
    IN  [c EXCEPT !.pc = "loop", !.idx = @ + 1,
                  !.totalGasCostWei = @ + txCostWei,
                  !.totalGasCostETH = FAdd(@, txCostETH),
                  !.totalGasCostUSD = FAdd(@, txCostUSD),
                  !.txCosts = <<[hash |-> tx.hash, timestamp |-> tx.blockTimestamp,
                                 costETH |-> txCostETH, costUSD |-> txCostUSD]>> \o @,
                  !.answers = Append(@, answer),
                  !.recorded = <<c.idx>> \o @]

\* the totals and txCosts after the transaction is recorded at price `price`
Recorded(c, answer, price) ==
    LET tx == c.transactions[c.idx]
        txCostWei == TxCostWei(tx)
        txCostETH == ParseFloatEther(txCostWei)
        txCostUSD == FMul(txCostETH, price)
    IN  [c EXCEPT !.pc = "loop", !.idx = @ + 1,
                  !.totalGasCostWei = @ + txCostWei,
                  !.totalGasCostETH = FAdd(@, txCostETH),
                  !.totalGasCostUSD = FAdd(@, txCostUSD),
                  !.txCosts = Append(@, [hash |-> tx.hash, timestamp |-> tx.blockTimestamp,
                                         costETH |-> txCostETH, costUSD |-> txCostUSD]),
                  !.answers = Append(@, answer),
                  !.recorded = Append(@, c.idx)]

\* the rest of the iteration once the price lookup has answered
AfterPrice(c, points, last) ==
    IF PriceUsed(HistPrice(points), last) = Null
    THEN NextTx(c, Answered(points))
    ELSE Recorded(c, Answered(points), PriceUsed(HistPrice(points), last))

\* the price lookup is answered
PriceResponds(r, points) ==
    /\ st[r].pc = "awaitPrice"
    /\ Set(r, AfterPrice(st[r], points, lastValidPrice[Slot(r)]))
    /\ lastValidPrice' =
         [lastValidPrice EXCEPT ![Slot(r)] = LastValidAfter(HistPrice(points), @)]
    /\ inflight' = [inflight EXCEPT ![r] = @ - 1]
    /\ UNCHANGED <<ui, wei>>

\* the locals of the call after a failed price lookup: fetchHistoricalETHPrice
\* throws the error again, inside the try of the loop body, whose catch logs it
AfterPriceError(c) == NextTx(c, Failed)

\* the price lookup fails
PriceFails(r) ==
    /\ st[r].pc = "awaitPrice"
    /\ Set(r, AfterPriceError(st[r]))
    /\ inflight' = [inflight EXCEPT ![r] = @ - 1]
    /\ UNCHANGED <<lastValidPrice, ui, wei>>

\* BigInt.prototype.toString: the decimal numeral of the integer
BigIntToString(n) == [digits |-> n]

\* Number.prototype.toString
NumberToString(f) == [kind |-> f.kind, units |-> f.v]

\* Number.prototype.toFixed(2): "NaN" for NaN, else two fraction digits
ToFixed2(f) == [kind |-> f.kind, units |-> f.v,
                fractionDigits |-> IF f.kind = "nan" THEN 0 ELSE 2]

\* the object calculateTotalGasCost returns
Result(c) ==
    [totalGasCostWei |-> BigIntToString(c.totalGasCostWei),
     totalGasCostETH |-> NumberToString(c.totalGasCostETH),
     totalGasCostUSD |-> ToFixed2(c.totalGasCostUSD),
     transactionCosts |-> c.txCosts]

Ok(result) == [status |-> 200, body |-> result]

\* the loop is over: calculateTotalGasCost returns and GET answers 200
Return(r) ==
    /\ st[r].pc = "loop"
    /\ st[r].idx > Len(st[r].transactions)
    /\ Set(r, [st[r] EXCEPT !.pc = "done", !.response = Ok(Result(st[r]))])
    /\ UNCHANGED <<lastValidPrice, inflight, ui, wei>>

-----------------------------------------------------------------------------
(* calculateTotalGasCost: the wei total on quantities of any size *)

\* txCostWei = BigInt(gasUsedValue) * BigInt(gasPriceValue)
TxCostWeiOf(tx) == BigIntTimes(BigIntOfString(tx.gasUsedValue), BigIntOfString(tx.gasPriceValue))

\* totalGasCostWei += txCostWei, for the transaction the loop stands at
AddTxCost ==
    /\ wei.pc = "loop"
    /\ wei.idx <= Len(wei.txs)
    /\ wei' = [wei EXCEPT !.idx = @ + 1,
                          !.totalGasCostWei = BigIntPlus(@, TxCostWeiOf(wei.txs[wei.idx])),
                          !.added = Append(@, TxCostWeiOf(wei.txs[wei.idx]))]
    /\ UNCHANGED <<st, lastValidPrice, inflight, ui>>

\* totalGasCostWei: totalGasCostWei.toString() of the result
ReturnWei ==
    /\ wei.pc = "loop"
    /\ wei.idx > Len(wei.txs)
    /\ wei' = [wei EXCEPT !.pc = "done", !.out = BigIntDecimal(wei.totalGasCostWei)]
    /\ UNCHANGED <<st, lastValidPrice, inflight, ui>>

-----------------------------------------------------------------------------
(* page.js: Home *)

\* setError(""); setResult(null); setChartData(null)
Cleared(u) == [u EXCEPT !.error = "", !.result = NoResult, !.chartData = NoChart]

\* the state of the page once handleSubmit has run up to its return for an empty
\* address, or up to its await of fetch
AfterSubmit(u) ==
    IF u.address = ""
    THEN [Cleared(u) EXCEPT !.submits = @ + 1]
    ELSE [Cleared(u) EXCEPT !.submits = @ + 1, !.loading = TRUE, !.pc = "awaitFetch",
                            !.asked = u.address, !.req = @ + 1]

\* the form is submitted; the submit button is disabled while loading
HandleSubmit ==
    /\ ui.pc = "ready"
    /\ ui.submits < PageMaxSubmits
    /\ ui' = AfterSubmit(ui)
    /\ UNCHANGED <<st, lastValidPrice, inflight, wei>>

\* response.ok
ResponseOk(response) == response.status \in 200..299

\* data.error || "Unknown error"
ErrorText(body) ==
    IF "error" \in DOMAIN body /\ body.error # "" THEN body.error ELSE "Unknown error"

\* the rest of handleSubmit once fetch and response.json() have resolved
AfterResponse(u, response) ==
    IF ResponseOk(response)
    THEN [u EXCEPT !.result = [set |-> TRUE, data |-> response.body],
                   !.loading = FALSE, !.pc = "ready"]
    ELSE [u EXCEPT !.error = ErrorText(response.body),
                   !.loading = FALSE, !.pc = "ready"]

\* the route has answered the request of the page
FetchResolves ==
    /\ ui.pc = "awaitFetch"
    /\ st[ui.req].pc = "done"
    /\ ui' = AfterResponse(ui, st[ui.req].response)
    /\ UNCHANGED <<st, lastValidPrice, inflight, wei>>

\* (variant: setLoading(false) is the last statement of the try block, the catch
\* does not reach it)
ThrownWhileLoading(u) == [u EXCEPT !.error = "Error fetching data", !.pc = "ready"]

\* the rest of handleSubmit once fetch or response.json() has thrown
AfterThrow(u) ==
    [u EXCEPT !.error = "Error fetching data", !.loading = FALSE, !.pc = "ready"]

\* fetch rejects (the request is lost, or its response), or the body is no JSON
FetchThrows ==
    /\ ui.pc = "awaitFetch"
    /\ ui' = AfterThrow(ui)
    /\ UNCHANGED <<st, lastValidPrice, inflight, wei>>

\* onChange of the input: setAddress(e.target.value)
SetAddress(address) ==
    /\ address # ui.address
    /\ ui' = [ui EXCEPT !.address = address]
    /\ UNCHANGED <<st, lastValidPrice, inflight, wei>>

\* the object handleGenerateChart builds: a label and a cost per entry
ChartOf(result) ==
    [set |-> TRUE,
     labels |-> [k \in 1..Len(result.transactionCosts) |->
                    [date |-> result.transactionCosts[k].timestamp]],
     data |-> [k \in 1..Len(result.transactionCosts) |->
                  result.transactionCosts[k].costUSD]]

\* the button "Generate Chart", rendered when there is a result, is clicked
HandleGenerateChart ==
    /\ ui.result.set
    /\ Len(ui.result.data.transactionCosts) > 0
    /\ ui' = [ui EXCEPT !.chartData = ChartOf(ui.result.data)]
    /\ UNCHANGED <<st, lastValidPrice, inflight, wei>>

-----------------------------------------------------------------------------
(* Specifications *)

\* every request may be made with any address of S
AnyOf(S) == [r \in Req |-> S]

\* a step of one request, the providers answering from the given sets
\* (addressesFor[r]: the addresses request r may be made with; pagesFor[r]: the
\* pages the history provider may answer request r with)
Step(addressesFor, routes, pagesFor, answers) ==
    \/ \E r \in Req :
         \E address \in addressesFor[r], route \in routes : GET(r, address, route)
    \/ \E r \in Req : PostHistory(r)
    \/ \E r \in Req :
         /\ st[r].pc = "awaitHistory"
         /\ \E page \in pagesFor[r] : HistoryResponds(r, page)
    \/ \E r \in Req : HistoryFails(r)
    \/ \E r \in Req : BeginTx(r)
    \/ \E r \in Req :
         /\ st[r].pc = "awaitPrice"
         /\ \E points \in answers : PriceResponds(r, points)
    \/ \E r \in Req : PriceFails(r)
    \/ \E r \in Req : Return(r)

\* the page names no further page
LastPage(page) == page.before = NoCursor /\ page.after = NoCursor

\* Spec: one request, the copy of the route that reads "before"; the history is
\* any list of up to MaxTxs transactions of any kind, served as one page.
AggPages == [r \in Req |-> {page \in Pages(TxPool, MaxTxs) : LastPage(page)}]

Next == Step(AnyOf(Addresses), {"before"}, AggPages, PriceAnswers)

Spec == Init /\ [][Next]_vars

\* SpecFetch: one request, both copies of the route; the history comes in any
\* pages of up to MaxPageLen transactions, with any cursors, FetchMaxTxs
\* transactions in all; the provider is exhausted at request FetchMaxPages.
\* A response names no next page, or one under a single name, or two different
\* ones under the two names.
FetchTxPool == {TxFull, TxNoGas}
FetchPriceAnswers == {<<[hasValue |-> TRUE, value |-> 1]>>}
FetchCursors == {<<NoCursor, NoCursor>>, <<"c1", NoCursor>>, <<NoCursor, "c1">>,
                 <<"c1", "c2">>, <<"c2", "c1">>}

FetchPages ==
    [r \in Req |->
        {page \in Pages(FetchTxPool, MaxPageLen) :
            /\ <<page.before, page.after>> \in FetchCursors
            /\ Len(st[r].transactions) + Len(page.txs) <= FetchMaxTxs
            /\ Len(st[r].sent) >= FetchMaxPages => LastPage(page)}]

NextFetch == Step(AnyOf(Addresses), Routes, FetchPages, FetchPriceAnswers)

SpecFetch == Init /\ [][NextFetch]_vars

\* SpecConc: NumReq requests, their await points interleaved in any order; each
\* history is one page of up to MaxPageLen transactions, the histories hold up
\* to ConcMaxTxs transactions in all.
ConcTxPool == {TxFull}
ConcPriceAnswers == {<<>>, <<[hasValue |-> TRUE, value |-> 1]>>}

RECURSIVE TxsHeld(_)
\* the transactions the requests of R have fetched
TxsHeld(R) ==
    IF R = {} THEN 0
    ELSE LET q == CHOOSE q \in R : TRUE
         IN  Len(st[q].transactions) + TxsHeld(R \ {q})

ConcPages ==
    [r \in Req |->
        {page \in Pages(ConcTxPool, MaxPageLen) :
            /\ page.hasTxs
            /\ LastPage(page)
            /\ Len(page.txs) + TxsHeld(Req \ {r}) <= ConcMaxTxs}]

NextConc == Step(AnyOf({"", "0xabc"}), {"before"}, ConcPages, ConcPriceAnswers)

SpecConc == InitConc /\ [][NextConc]_vars

\* SpecLive: one request, both copies of the route; the history provider answers
\* every request with any page of at most one transaction and is never
\* exhausted: it may name a next page for ever, the same one or another.  Every
\* upstream call is answered or fails, and the continuation that waits for it
\* runs: some step of the request is taken whenever one is possible.
LiveTxPool == {TxFull}
LivePriceAnswers == {<<>>, <<[hasValue |-> TRUE, value |-> 1]>>}

LivePages ==
    [r \in Req |->
        {page \in Pages(LiveTxPool, 1) : <<page.before, page.after>> \in FetchCursors}]

NextLive == Step(AnyOf(Addresses), Routes, LivePages, LivePriceAnswers)

SpecLive == InitLive /\ [][NextLive]_vars /\ WF_vars(NextLive)

\* SpecPage: the page and the route.  The address is typed, the form submitted
\* up to PageMaxSubmits times, the chart generated, in any order the page
\* allows; the request of a submit reaches the route while the page awaits it,
\* or never; each history is one page of at most one transaction.
PageAddresses == {"", "0xabc"}
PagePriceAnswers == {<<>>, <<[hasValue |-> TRUE, value |-> 1]>>}

PageRequests ==
    [r \in Req |-> IF ui.pc = "awaitFetch" /\ r = ui.req THEN {ui.asked} ELSE {}]

PagePages == [r \in Req |-> {page \in Pages(ConcTxPool, 1) : LastPage(page)}]

NextPage ==
    \/ Step(PageRequests, {"before"}, PagePages, PagePriceAnswers)
    \/ HandleSubmit
    \/ FetchResolves
    \/ FetchThrows
    \/ \E address \in PageAddresses : SetAddress(address)
    \/ HandleGenerateChart

SpecPage == InitPage /\ [][NextPage]_vars

\* SpecWei: the wei total of one call, every transaction being recorded
NextWei ==
    \/ AddTxCost
    \/ ReturnWei

SpecWei == InitWei /\ [][NextWei]_vars

-----------------------------------------------------------------------------
(* The two functions run alone, as functions of the provider's answers *)

RECURSIVE FetchAlone(_, _, _)
\* fetchTransactionHistory on the responses pages[i..]: what the while loop returns
FetchAlone(route, pages, i) ==
    IF i > Len(pages) THEN <<>>
    ELSE IF ~HasTransactions(pages[i]) THEN <<>>
    ELSE IF CursorOf(route, pages[i]) = NoCursor THEN pages[i].txs
    ELSE pages[i].txs \o FetchAlone(route, pages, i + 1)

\* the locals of calculateTotalGasCost before the loop
LoopStart == [wei |-> 0, eth |-> Num(0), usd |-> Num(0), costs |-> <<>>, last |-> Null]

\* one iteration of the for loop on transaction tx, its price lookup giving answer
LoopBody(acc, tx, answer) ==
    IF UpToAwait(tx) # "lookup" \/ answer.kind # "points" THEN acc
    ELSE LET found == HistPrice(answer.points)
             price == IF found = Null THEN acc.last ELSE found
             txCostETH == ParseFloatEther(TxCostWei(tx))
             txCostUSD == FMul(txCostETH, price)
         IN  IF price = Null THEN acc
             ELSE [wei |-> acc.wei + TxCostWei(tx),
                   eth |-> FAdd(acc.eth, txCostETH),
                   usd |-> FAdd(acc.usd, txCostUSD),
                   costs |-> Append(acc.costs,
                                    [hash |-> tx.hash, timestamp |-> tx.blockTimestamp,
                                     costETH |-> txCostETH, costUSD |-> txCostUSD]),
                   last |-> price]

RECURSIVE LoopAlone(_, _, _)
\* the for loop over items[i..], each a transaction with the answer of its lookup
LoopAlone(items, i, acc) ==
    IF i > Len(items) THEN acc
    ELSE LoopAlone(items, i + 1, LoopBody(acc, items[i].tx, items[i].answer))

\* calculateTotalGasCost on the transactions and answers of items
AggregateAlone(items) ==
    LET acc == LoopAlone(items, 1, LoopStart)
    IN  [totalGasCostWei |-> BigIntToString(acc.wei),
         totalGasCostETH |-> NumberToString(acc.eth),
         totalGasCostUSD |-> ToFixed2(acc.usd),
         transactionCosts |-> acc.costs]

\* the transactions of call c, each with the answer its price lookup got
Items(c) ==
    [i \in 1..Len(c.transactions) |->
        [tx |-> c.transactions[i],
         answer |-> IF i <= Len(c.answers) THEN c.answers[i] ELSE Unasked]]

\* a history request of call c failed: it is the one request without a response
HistoryFailed(c) == c.pc = "done" /\ Len(c.pageLog) < Len(c.sent)

\* GET run alone on the address and the provider answers call c got
GetAlone(c) ==
    IF AddressMissing(c.address) THEN MissingAddress
    ELSE IF HistoryFailed(c) THEN ServerError("history request failed")
    ELSE Ok(AggregateAlone(
             [i \in 1..Len(FetchAlone(c.route, c.pageLog, 1)) |->
                 [tx |-> FetchAlone(c.route, c.pageLog, 1)[i],
                  answer |-> IF i <= Len(c.answers) THEN c.answers[i] ELSE Unasked]]))

-----------------------------------------------------------------------------
(* Properties *)

Max(S) == CHOOSE x \in S : \A y \in S : y <= x

\* the positions of transactions whose price lookup returned at least one point
Resolved(c) == {j \in 1..Len(c.answers) :
                   c.answers[j].kind = "points" /\ c.answers[j].points # <<>>}

\* the positions of transactions whose price lookup returned no point
NotFound(c) == {j \in 1..Len(c.answers) : c.answers[j] = Answered(<<>>)}

\* the entries of txCosts that belong to the transaction at position i
EntriesOf(c, i) == {k \in 1..Len(c.recorded) : c.recorded[k] = i}

\* C1: if the price lookup of any transaction fails with a transport error, the
\* whole call fails: GET answers 500 and not 200.
C1_PriceErrorFailsCall ==
    \A r \in Req :
        (st[r].pc = "done" /\ \E i \in 1..Len(st[r].answers) : st[r].answers[i] = Failed)
            => st[r].response.status = 500

RECURSIVE SumETH(_, _)
\* the sum of costETH over the first k entries, added in their order
SumETH(costs, k) ==
    IF k = 0 THEN Num(0) ELSE FAdd(SumETH(costs, k - 1), costs[k].costETH)

RECURSIVE SumUSD(_, _)
\* the sum of costUSD over the first k entries, added in their order
SumUSD(costs, k) ==
    IF k = 0 THEN Num(0) ELSE FAdd(SumUSD(costs, k - 1), costs[k].costUSD)

\* C2: a transaction whose price lookup returns "not found" is recorded at the
\* price of the most recent earlier resolution of the call; when no earlier
\* transaction of the call resolved a price it is skipped: it has no entry, and
\* the totals hold the entries only.
C2_FallbackToMostRecentPrice ==
    \A r \in Req :
        LET c == st[r]
        IN  /\ c.totalGasCostETH = SumETH(c.txCosts, Len(c.txCosts))
            /\ c.totalGasCostUSD = SumUSD(c.txCosts, Len(c.txCosts))
            /\ \A i \in NotFound(c) :
                 LET prior == {j \in Resolved(c) : j < i}
                 IN  IF prior = {}
                     THEN EntriesOf(c, i) = {}
                     ELSE /\ Cardinality(EntriesOf(c, i)) = 1
                          /\ \A k \in EntriesOf(c, i) :
                               c.txCosts[k].costUSD =
                                   FMul(ParseFloatEther(TxCostWei(c.transactions[i])),
                                        ParseFloatValue(c.answers[Max(prior)].points[1]))

\* C2 happens: a lookup finds nothing after two earlier lookups found different prices
C2_Witness ==
    \E r \in Req : \E i \in NotFound(st[r]) : \E j, k \in Resolved(st[r]) :
        /\ j < k /\ k < i
        /\ st[r].answers[j].points[1] # st[r].answers[k].points[1]
        /\ st[r].pc = "done"

RECURSIVE SumWei(_, _)
\* the sum of gasUsed * gasPrice over the transactions of the first k entries
SumWei(c, k) ==
    IF k = 0 THEN 0
    ELSE SumWei(c, k - 1) + TxCostWei(c.transactions[c.recorded[k]])

\* C3: at every point of the loop and in the result, totalGasCostWei is the exact
\* sum of gasUsed * gasPrice over exactly the transactions that have an entry in
\* transactionCosts; a skipped transaction adds nothing and has no entry.
C3_TotalWeiIsSumOfEntries ==
    \A r \in Req :
        LET c == st[r]
        IN  /\ Len(c.recorded) = Len(c.txCosts)
            /\ \A k \in 1..Len(c.recorded) :
                 /\ c.recorded[k] \in 1..Len(c.transactions)
                 /\ c.txCosts[k].hash = c.transactions[c.recorded[k]].hash
                 /\ k > 1 => c.recorded[k - 1] < c.recorded[k]
            /\ c.totalGasCostWei = SumWei(c, Len(c.recorded))
            /\ c.response.status = 200 =>
                 /\ c.response.body.totalGasCostWei = BigIntToString(SumWei(c, Len(c.recorded)))
                 /\ c.response.body.transactionCosts = c.txCosts

\* C3 happens: a call returns with two entries and a skipped transaction between them
C3_Witness ==
    \E r \in Req :
        /\ st[r].response.status = 200
        /\ Len(st[r].transactions) = 3
        /\ st[r].recorded = <<1, 3>>
        /\ st[r].totalGasCostWei > 0

\* the response ends the pagination, in the words of C4: it names no next page,
\* or its transaction list is empty or missing
Terminating(route, page) ==
    \/ CursorOf(route, page) = NoCursor
    \/ ~page.hasTxs
    \/ page.txs = <<>>

RECURSIVE Concat(_, _)
\* the transaction lists of the first n pages, one after the other
Concat(pages, n) ==
    IF n = 0 THEN <<>>
    ELSE Concat(pages, n - 1) \o (IF pages[n].hasTxs THEN pages[n].txs ELSE <<>>)

\* fetchTransactionHistory has returned its list
Fetched(c) == c.pc \in {"loop", "awaitPrice"} \/ (c.pc = "done" /\ c.response.status = 200)

\* C4: fetchTransactionHistory returns the records of all pages, in the order
\* supplied, up to the first response that names no next page or holds no
\* transaction, and issues no request after that response, also when the empty
\* response names a next page.
C4_FetchConcatenatesUntilTerminating ==
    \A r \in Req :
        LET c == st[r]
            n == Len(c.pageLog)
        IN  /\ \A k \in 1..(n - 1) : ~Terminating(c.route, c.pageLog[k])
            /\ c.pc \in {"fetch", "awaitHistory"} =>
                 \A k \in 1..n : ~Terminating(c.route, c.pageLog[k])
            /\ Fetched(c) =>
                 /\ n >= 1
                 /\ Terminating(c.route, c.pageLog[n])
                 /\ Len(c.sent) = n
                 /\ c.transactions = Concat(c.pageLog, n)

\* C4 happens: three pages of 1, 2 and 1 records, a cursor on the first two, give
\* 4 records from 3 requests
C4_Witness ==
    \E r \in Req :
        /\ Fetched(st[r])
        /\ Len(st[r].sent) = 3
        /\ Len(st[r].pageLog) = 3
        /\ Len(st[r].pageLog[1].txs) = 1
        /\ Len(st[r].pageLog[2].txs) = 2
        /\ Len(st[r].pageLog[3].txs) = 1
        /\ Len(st[r].transactions) = 4

\* a history request of the call got no response and is not awaited any more
PageRequestFailed(c) ==
    /\ c.pc \notin {"idle", "fetch", "awaitHistory"}
    /\ Len(c.pageLog) < Len(c.sent)

\* C5: if a history page request fails, on the first page or after any number of
\* pages, no list is returned and the pages fetched are dropped: no price lookup
\* is issued and GET answers 500 with a body that holds an error message only.
C5_HistoryErrorFailsCall ==
    \A r \in Req :
        PageRequestFailed(st[r])
            => /\ st[r].pc = "done"
               /\ st[r].response.status = 500
               /\ DOMAIN st[r].response.body = {"error"}
               /\ st[r].lookups = 0
               /\ st[r].txCosts = <<>>

\* C5 happens: the third page request fails after two pages were fetched
C5_Witness ==
    \E r \in Req :
        /\ HistoryFailed(st[r])
        /\ Len(st[r].pageLog) = 2
        /\ Len(st[r].transactions) > 0
        /\ st[r].response.status = 500

\* the transaction lacks both fields of the gas quantity, or both of the gas price
Lacking(tx) ==
    \/ (tx.gasUsed = Absent /\ tx.gas = Absent)
    \/ (tx.effectiveGasPrice = Absent /\ tx.gasPrice = Absent)

Complete(item) == ~Lacking(item.tx)

\* C6: a transaction that lacks both gasUsed and gas, or both effectiveGasPrice
\* and gasPrice, has no entry in transactionCosts, and the result is the one the
\* call gives on the list without these transactions.
C6_LackingTransactionIsLeftOut ==
    \A r \in Req :
        LET c == st[r]
        IN  /\ \A k \in 1..Len(c.recorded) : ~Lacking(c.transactions[c.recorded[k]])
            /\ (c.pc = "done" /\ c.response.status = 200) =>
                 /\ Len(c.answers) = Len(c.transactions)
                 /\ c.response.body = AggregateAlone(SelectSeq(Items(c), Complete))

\* C6 happens: a call returns on a list with a lacking transaction between two
\* transactions that are recorded
C6_Witness ==
    \E r \in Req :
        /\ st[r].response.status = 200
        /\ Len(st[r].transactions) = 3
        /\ Lacking(st[r].transactions[2])
        /\ st[r].recorded = <<1, 3>>

\* C7: a GET without an address, or with an empty one, is answered 400 with the
\* body {"error": "Missing address parameter"}, and issues no upstream call.
C7_MissingAddressIs400 ==
    \A r \in Req :
        (st[r].pc # "idle" /\ st[r].address \in {NullAddress, ""})
            => /\ st[r].pc = "done"
               /\ st[r].response.status = 400
               /\ st[r].response.body = [error |-> "Missing address parameter"]
               /\ st[r].sent = <<>>
               /\ st[r].lookups = 0
               /\ inflight[r] = 0

\* C7 happens: a GET with an empty address has been answered
C7_Witness ==
    \E r \in Req : st[r].pc = "done" /\ st[r].address = "" /\ st[r].response.status = 400

\* C8: a run has at most one upstream request in flight: a page is requested only
\* after the response of the page before, and the price of a transaction is
\* looked up only after the transactions before it have been dealt with.
C8_OneRequestInFlight ==
    \A r \in Req :
        /\ inflight[r] \in {0, 1}
        /\ inflight[r] = 1 <=> st[r].pc \in {"awaitHistory", "awaitPrice"}
        /\ st[r].pc = "awaitHistory" =>
             /\ Len(st[r].pageLog) = Len(st[r].sent) - 1
             /\ st[r].lookups = 0
        /\ st[r].pc = "awaitPrice" =>
             /\ Len(st[r].answers) = st[r].idx - 1
             /\ Len(st[r].pageLog) = Len(st[r].sent)
        /\ st[r].lookups <= Len(st[r].answers) + inflight[r]

\* C8 happens: the price of the third transaction is looked up after two lookups
\* were answered
C8_Witness ==
    \E r \in Req :
        /\ st[r].pc = "awaitPrice"
        /\ st[r].idx = 3
        /\ st[r].lookups = 3
        /\ inflight[r] = 1

\* the price the last resolved lookup of call c found, null when none resolved
LastResolved(c) ==
    IF Resolved(c) = {} THEN Null
    ELSE ParseFloatValue(c.answers[Max(Resolved(c))].points[1])

\* the call used a price found by an earlier lookup of its own
UsedFallback(c) == \E i \in NotFound(c) : EntriesOf(c, i) # {}

\* C9: when requests run concurrently, their await points interleaved in any
\* order, each request gets the response it gets when run alone on the same
\* provider answers; the last valid price of a call is null until a lookup of
\* that call resolves, and is never a price another call resolved.
C9_ConcurrentRequestsAreIsolated ==
    \A r \in Req :
        /\ st[r].pc = "done" => st[r].response = GetAlone(st[r])
        /\ (st[r].pc = "loop" /\ st[r].idx = 1) => lastValidPrice[r] = Null
        /\ st[r].pc \in {"loop", "awaitPrice"} => lastValidPrice[r] = LastResolved(st[r])

\* C9 happens: two requests overlap in time, one falls back to its last valid
\* price and the other has resolved a price too
C9_Witness ==
    \E r, q \in Req :
        /\ r # q
        /\ st[r].pc = "done" /\ st[q].pc = "done"
        /\ r \notin st[q].after /\ q \notin st[r].after
        /\ UsedFallback(st[r])
        /\ Resolved(st[q]) # {}

\* the two calls of calculateTotalGasCost were fed the same provider answers
SameAnswers(c, d) ==
    /\ ~AddressMissing(c.address) /\ ~AddressMissing(d.address)
    /\ c.route = d.route
    /\ c.pageLog = d.pageLog
    /\ Len(c.sent) = Len(d.sent)
    /\ c.answers = d.answers

\* C10: two successive calls of calculateTotalGasCost fed the same provider
\* answers return the same result; the first call has no effect on the second.
C10_SuccessiveCallsAgree ==
    \A r, q \in Req :
        (/\ r \in st[q].after
         /\ st[q].pc = "done"
         /\ SameAnswers(st[r], st[q]))
            => st[q].response = st[r].response

\* C10 happens: a call that resolved a price only for its second transaction is
\* followed by a call with the same answers
C10_Witness ==
    \E r, q \in Req :
        /\ r \in st[q].after
        /\ st[q].pc = "done"
        /\ SameAnswers(st[r], st[q])
        /\ st[q].response.status = 200
        /\ Len(st[q].answers) = 2
        /\ 1 \in NotFound(st[q])
        /\ 2 \in Resolved(st[q])

RECURSIVE Embeds(_, _, _, _)
\* the entries costs[i..] belong, in their order, to transactions among txs[j..]:
\* each entry has the hash and the blockTimestamp of a transaction of its own
Embeds(costs, txs, i, j) ==
    IF i > Len(costs) THEN TRUE
    ELSE IF j > Len(txs) THEN FALSE
    ELSE IF costs[i].hash = txs[j].hash /\ costs[i].timestamp = txs[j].blockTimestamp
         THEN Embeds(costs, txs, i + 1, j + 1)
         ELSE Embeds(costs, txs, i, j + 1)

\* C12: in a successful result transactionCosts is an order-preserving
\* subsequence of the fetched list: a transaction has at most one entry, the
\* entries stand in the order of their transactions, and each entry carries the
\* hash and the blockTimestamp of its transaction.
C12_EntriesAreSubsequenceOfFetched ==
    \A r \in Req :
        LET c == st[r]
            costs == c.response.body.transactionCosts
        IN  c.response.status = 200 =>
              /\ Len(costs) = Len(c.recorded)
              /\ Len(costs) <= Len(c.transactions)
              /\ Embeds(costs, c.transactions, 1, 1)
              /\ \A k \in 1..Len(costs) :
                   /\ c.recorded[k] \in 1..Len(c.transactions)
                   /\ costs[k].hash = c.transactions[c.recorded[k]].hash
                   /\ costs[k].timestamp = c.transactions[c.recorded[k]].blockTimestamp
                   /\ \A j \in 1..Len(costs) : j < k => c.recorded[j] < c.recorded[k]

\* C12 happens: a call returns two entries of transactions with different hashes
\* and timestamps, after a first transaction that was skipped
C12_Witness ==
    \E r \in Req :
        /\ st[r].response.status = 200
        /\ st[r].recorded = <<2, 3>>
        /\ st[r].transactions[2].hash # st[r].transactions[3].hash
        /\ st[r].transactions[2].blockTimestamp # st[r].transactions[3].blockTimestamp
        /\ Len(st[r].response.body.transactionCosts) = 2

\* C14: in every successful result, whatever the providers answered (an empty
\* history, price points without a value or with a value that is no number),
\* totalGasCostUSD is a decimal numeral with exactly 2 fraction digits.
C14_UsdTotalHasTwoFractionDigits ==
    \A r \in Req :
        st[r].response.status = 200 =>
            /\ st[r].response.body.totalGasCostUSD.kind = "num"
            /\ st[r].response.body.totalGasCostUSD.fractionDigits = 2

\* the field of a pair that C15 names: the first whenever it is present, whatever
\* its value, the second only when the first is absent
Preferred(first, second) == IF first # Absent THEN first ELSE second

\* C15: the gas quantity of a transaction is gasUsed whenever that field is
\* present, whatever its value, zero included, and gas only when gasUsed is
\* absent; the price is effectiveGasPrice whenever present and gasPrice only when
\* it is absent; a transaction is skipped for a missing quantity only when both
\* fields of a pair are absent.
C15_PresentFieldIsPreferred ==
    \A r \in Req :
        LET c == st[r]
        IN  /\ \A k \in 1..Len(c.recorded) :
                 LET tx == c.transactions[c.recorded[k]]
                 IN  c.txCosts[k].costETH =
                         ParseFloatEther(BigInt(Preferred(tx.gasUsed, tx.gas))
                                         * BigInt(Preferred(tx.effectiveGasPrice, tx.gasPrice)))
            /\ \A i \in 1..Len(c.answers) :
                 LET tx == c.transactions[i]
                 IN  (/\ ~Lacking(tx)
                      /\ ~BigIntThrows(Preferred(tx.gasUsed, tx.gas))
                      /\ ~BigIntThrows(Preferred(tx.effectiveGasPrice, tx.gasPrice))
                      /\ tx.blockTimestamp # Absent)
                         => c.answers[i] # Unasked

\* C16: the first history request of a fetch carries no cursor; every later
\* request carries the cursor of the response just before it, never an older one
\* and never none, under the name it was read from.
C16_RequestCarriesLastCursor ==
    \A r \in Req :
        LET c == st[r]
        IN  /\ Len(c.pageLog) >= Len(c.sent) - 1
            /\ Len(c.sent) >= 1 => c.sent[1] = [before |-> NoCursor, after |-> NoCursor]
            /\ \/ \A k \in 2..Len(c.sent) :
                    /\ c.sent[k].before = c.pageLog[k - 1].before
                    /\ c.sent[k].before # NoCursor
                    /\ c.sent[k].after = NoCursor
               \/ \A k \in 2..Len(c.sent) :
                    /\ c.sent[k].after = c.pageLog[k - 1].after
                    /\ c.sent[k].after # NoCursor
                    /\ c.sent[k].before = NoCursor

\* C16 happens: the third request of a fetch carries the cursor of the second
\* response, which differs from the cursor of the first and from the cursor the
\* second response has under the other name
C16_Witness ==
    \E r \in Req :
        /\ Len(st[r].sent) = 3
        /\ st[r].route = "after"
        /\ st[r].pageLog[1].after # st[r].pageLog[2].after
        /\ st[r].pageLog[2].before # st[r].pageLog[2].after
        /\ st[r].sent[3].after = st[r].pageLog[2].after

\* the transaction has the three fields, in the words of C17: a gas quantity, a
\* gas-price quantity and a block timestamp
HasAllFields(tx) == ~Lacking(tx) /\ tx.blockTimestamp # Absent

\* the transaction gets as far as its price request: the quantities chosen by ||
\* are there and convert to integers, the block timestamp is there and converts
\* to a date
Priceable(tx) ==
    /\ OrElse(tx.gasUsed, tx.gas).kind = "num" /\ OrElse(tx.gasUsed, tx.gas).v # 0
    /\ OrElse(tx.effectiveGasPrice, tx.gasPrice).kind = "num"
    /\ OrElse(tx.effectiveGasPrice, tx.gasPrice).v # 0
    /\ tx.blockTimestamp.kind = "num" /\ tx.blockTimestamp.v # 0

\* the price lookups of call c are issued once the history is fetched, one for each
\* transaction at a position of `wanted` and for no other, in the order of the list
LookupsFollow(c, wanted) ==
    /\ c.lookups = Len(c.asked)
    /\ c.lookups <= Len(c.transactions)
    /\ c.lookups > 0 =>
         /\ c.pc \in {"loop", "awaitPrice", "done"}
         /\ Len(c.pageLog) = Len(c.sent)
         /\ Terminating(c.route, c.pageLog[Len(c.pageLog)])
    /\ \A k \in 1..Len(c.asked) :
         /\ c.asked[k] \in 1..Len(c.transactions)
         /\ \A j \in 1..Len(c.asked) : j < k => c.asked[j] < c.asked[k]
    /\ \A i \in 1..Len(c.answers) :
         (\E k \in 1..Len(c.asked) : c.asked[k] = i) <=> i \in wanted
    /\ c.pc = "awaitPrice" =>
         /\ c.asked[Len(c.asked)] = c.idx
         /\ c.idx \in wanted
    /\ (c.pc = "done" /\ c.response.status = 200) => Len(c.answers) = Len(c.transactions)

ResolvesAndAppends(r) ==
    /\ st[r].pc = "awaitPrice"
    /\ st'[r].pc = "loop"
    /\ Len(st'[r].answers) = Len(st[r].answers) + 1
    /\ Len(st'[r].answers) \in Resolved(st'[r])
    /\ Len(st'[r].txCosts) = Len(st[r].txCosts) + 1
    /\ st'[r].recorded[Len(st'[r].recorded)] = st[r].idx

\* C18: at every iteration boundary of the loop the last valid price is set
\* (non-null) if and only if txCosts is non-empty; once set it is never reset to
\* null within the call, and it changes only in an iteration whose own lookup
\* resolved, which is an iteration that appends an entry.
C18_LastValidPriceFollowsEntries ==
    [][\A r \in Req :
         /\ st[r].pc \in {"loop", "awaitPrice"} =>
              (lastValidPrice[r] # Null <=> st[r].txCosts # <<>>)
         /\ st'[r].pc \in {"loop", "awaitPrice", "done"} =>
              (lastValidPrice'[r] # Null <=> st'[r].txCosts # <<>>)
         /\ st[r].pc \in {"loop", "awaitPrice"} =>
              /\ lastValidPrice[r] # Null => lastValidPrice'[r] # Null
              /\ lastValidPrice'[r] # lastValidPrice[r] => ResolvesAndAppends(r)]_vars

\* C18 happens: after a lookup that found nothing and left no entry, a lookup
\* resolved a price and the next one resolved another
C18_Witness ==
    \E r \in Req :
        /\ st[r].pc = "loop"
        /\ Len(st[r].answers) = 3
        /\ 1 \in NotFound(st[r])
        /\ {2, 3} \subseteq Resolved(st[r])
        /\ st[r].recorded = <<2, 3>>
        /\ lastValidPrice[r] = ParseFloatValue(st[r].answers[3].points[1])
        /\ st[r].answers[2].points[1] # st[r].answers[3].points[1]

\* the gas or the gas-price value of the transaction is there and is no integer
Unconvertible(tx) ==
    \/ OrElse(tx.gasUsed, tx.gas).kind = "bad"
    \/ OrElse(tx.effectiveGasPrice, tx.gasPrice).kind = "bad"

\* C19: a transaction whose gas or gas-price value is present and cannot be
\* converted to an integer is skipped: its iteration leaves the three totals,
\* txCosts and the last valid price as they are and issues no price lookup, the
\* loop goes on with the next transaction, and the call ends with a 200.
C19_UnconvertibleIsSkipped ==
    [][\A r \in Req :
         /\ (/\ st[r].pc = "loop"
             /\ st[r].idx <= Len(st[r].transactions)
             /\ Unconvertible(st[r].transactions[st[r].idx])
             /\ st'[r] # st[r])
                => /\ st'[r].pc = "loop"
                   /\ st'[r].idx = st[r].idx + 1
                   /\ st'[r].totalGasCostWei = st[r].totalGasCostWei
                   /\ st'[r].totalGasCostETH = st[r].totalGasCostETH
                   /\ st'[r].totalGasCostUSD = st[r].totalGasCostUSD
                   /\ st'[r].txCosts = st[r].txCosts
                   /\ st'[r].lookups = st[r].lookups
                   /\ lastValidPrice' = lastValidPrice
                   /\ inflight' = inflight
         /\ (st[r].pc \in {"loop", "awaitPrice"} /\ st'[r].pc = "done")
                => /\ st'[r].response.status = 200
                   /\ Len(st'[r].answers) = Len(st'[r].transactions)]_vars

\* C19 happens: a call returns a 200 with the entries of the first and the last
\* of three transactions, the second having a gas or gas-price value that is no
\* integer
C19_Witness ==
    \E r \in Req :
        /\ st[r].response.status = 200
        /\ Len(st[r].transactions) = 3
        /\ Unconvertible(st[r].transactions[2])
        /\ st[r].recorded = <<1, 3>>
        /\ st[r].lookups = 2

\* the request has been made / has been answered
Started(r) == st[r].pc # "idle"
Responded(r) == st[r].pc = "done" /\ st[r].response.status \in {200, 400, 500}

\* the last history response call r got names a next page and holds transactions
AskedToGoOn(r) ==
    /\ st[r].pageLog # <<>>
    /\ ~Terminating(st[r].route, st[r].pageLog[Len(st[r].pageLog)])

\* C11 as stated: every GET eventually has its response, every upstream call
\* being answered or failing, whatever the history provider answers, also when it
\* names a next page with every non-empty page, for ever.
C11_EveryRequestResponds ==
    \A r \in {1} : Started(r) ~> Responded(r)

\* C11 amended: every GET eventually has its response, and only one, provided
\* the history provider does not go on for ever answering with non-empty pages
\* that name a next page.
C11_RespondsIfHistoryEnds ==
    /\ [](\A r \in {1} : st[r].pc = "done" => Responded(r))
    /\ [][\A r \in {1} : st[r].pc = "done" => st'[r] = st[r]]_vars
    /\ \A r \in {1} : ([]<>~AskedToGoOn(r)) => (Started(r) ~> Responded(r))

\* C11 happens: a request is answered 200 after a fetch of four pages or more,
\* the last two being all the call holds
C11_Witness ==
    \E r \in Req :
        /\ Responded(r)
        /\ st[r].response.status = 200
        /\ st[r].keep > 0
        /\ Len(st[r].pageLog) = st[r].keep
        /\ ~Terminating(st[r].route, st[r].pageLog[1])
        /\ st[r].sent[1].after = "c2"
        /\ st[r].sent[2].after = "c1"
        /\ st[r].lookups > 0

\* the step is a call of handleSubmit / the end of one that awaited its request
SubmitStep == ui'.submits = ui.submits + 1
SubmitEnds == ui.pc = "awaitFetch" /\ ui'.pc = "ready"

\* C20: every handleSubmit starts by clearing error, result and chartData; with
\* an empty address it issues no request and never sets loading; otherwise
\* loading is true from before the request until the handler ends and false
\* afterwards, whether the response was ok, an error status, or fetch or the JSON
\* parse threw; after the handler ends exactly one of result and error is set.
C20_SubmitHandler ==
    [][/\ SubmitStep =>
            /\ ui'.error = "" /\ ~ui'.result.set /\ ~ui'.chartData.set
            /\ st' = st
            /\ IF ui.address = ""
               THEN ~ui'.loading /\ ui'.pc = "ready" /\ ui'.req = ui.req
               ELSE /\ ui'.loading /\ ui'.pc = "awaitFetch"
                    /\ ui'.req = ui.req + 1
                    /\ st[ui'.req].pc = "idle"
       /\ \A r \in Req :
            (st[r].pc = "idle" /\ st'[r].pc # "idle") =>
                /\ ui.loading /\ ui.pc = "awaitFetch" /\ r = ui.req
                /\ st'[r].address = ui.asked /\ st'[r].address # ""
       /\ ui.pc = "awaitFetch" => ui.loading
       /\ ui'.pc = "awaitFetch" => ui'.loading
       /\ ui'.pc = "ready" => ~ui'.loading
       /\ SubmitEnds => (ui'.result.set <=> ui'.error = "")
       /\ ~ui'.result.set \/ ui'.error = ""]_vars

\* C20 happens: a first submit ended with the error of a 500, a second one with a
\* result, of which the chart was generated, and the address was then emptied
C20_Witness ==
    /\ ui.submits = 2
    /\ ui.req = 2
    /\ st[1].response.status = 500
    /\ st[2].response.status = 200
    /\ ui.pc = "ready" /\ ~ui.loading
    /\ ui.result.set /\ ui.error = ""
    /\ ui.chartData.set
    /\ ui.address = ""

\* Twelve primes; their product is above 10^47, so two natural numbers of up to 47
\* digits that leave the same remainders for all twelve are the same number.
Moduli == {9973, 9967, 9949, 9941, 9931, 9929, 9923, 9907, 9901, 9887, 9883, 9871}

RECURSIVE StringMod(_, _, _)
\* the remainder modulo m of the number the first n digits of string s spell
StringMod(s, n, m) == IF n = 0 THEN 0 ELSE (10 * StringMod(s, n - 1, m) + s[n]) % m

RECURSIVE DigitsMod(_, _, _)
\* the remainder modulo m of the number with the digits x[i..], the units first
DigitsMod(x, i, m) == IF i > Len(x) THEN 0 ELSE (x[i] + 10 * DigitsMod(x, i + 1, m)) % m

RECURSIVE SumMod(_, _, _)
\* the remainder modulo m of the sum of the first k numbers of xs
SumMod(xs, k, m) == IF k = 0 THEN 0 ELSE (SumMod(xs, k - 1, m) + DigitsMod(xs[k], 1, m)) % m

\* x is a natural number in digits: no zero at its upper end
IsNatural(x) ==
    /\ \A i \in 1..Len(x) : x[i] \in 0..9
    /\ x # <<>> => x[Len(x)] # 0

\* s is the decimal numeral of a natural number: "0", or digits without a leading zero
IsNumeral(s) ==
    /\ Len(s) >= 1
    /\ \A i \in 1..Len(s) : s[i] \in 0..9
    /\ Len(s) > 1 => s[1] # 0

RECURSIVE StringValue(_, _)
\* the number the first n digits of a short string spell
StringValue(s, n) == IF n = 0 THEN 0 ELSE 10 * StringValue(s, n - 1) + s[n]

\* the string spells a number below 2^15.5, the product of two such is below 2^31
Short(s) == Len(s) <= 9 /\ StringValue(s, Len(s)) <= 46340

\* C13: for every recorded transaction the cost added to totalGasCostWei is
\* exactly the integer product of its gas-used and its gas-price quantity, without
\* rounding or truncation, whatever the size of the operands and the product
\* (beyond 2^53 too), and the total of the result is the exact decimal numeral of
\* the sum.
C13_WeiCostIsExactProduct ==
    /\ Len(wei.added) = wei.idx - 1
    /\ \A k \in 1..Len(wei.added) :
         LET g == wei.txs[k].gasUsedValue
             p == wei.txs[k].gasPriceValue
         IN  /\ IsNatural(wei.added[k])
             /\ Len(wei.added[k]) <= Len(g) + Len(p)
             /\ \A m \in Moduli :
                  DigitsMod(wei.added[k], 1, m)
                      = (StringMod(g, Len(g), m) * StringMod(p, Len(p), m)) % m
             /\ (Short(g) /\ Short(p)) =>
                  StringValue(Reversed(wei.added[k]), Len(wei.added[k]))
                      = StringValue(g, Len(g)) * StringValue(p, Len(p))
    /\ IsNatural(wei.totalGasCostWei)
    /\ Len(wei.totalGasCostWei) <= 46
    /\ \A m \in Moduli :
         DigitsMod(wei.totalGasCostWei, 1, m) = SumMod(wei.added, Len(wei.added), m)
    /\ wei.pc = "done" =>
         /\ Len(wei.added) = Len(wei.txs)
         /\ IsNumeral(wei.out)
         /\ \A m \in Moduli :
              StringMod(wei.out, Len(wei.out), m) = SumMod(wei.added, Len(wei.added), m)

\* C13 happens: a total is returned that is the sum of two products, one of two
\* operands beyond 2^53, and is odd and beyond 2^53 itself
C13_Witness ==
    /\ wei.pc = "done"
    /\ Len(wei.txs) = 2
    /\ Len(wei.txs[1].gasUsedValue) = 16 /\ Len(wei.txs[1].gasPriceValue) = 20
    /\ Len(wei.added[1]) >= 35
    /\ Len(wei.added[2]) \in 1..9
    /\ Len(wei.out) >= 35
    /\ wei.out[Len(wei.out)] % 2 = 1

====
